---- MODULE Spec2Model ----
(***************************************************************************)
(* The TrackMan dashboard scripts (stream_data_app.py and its versions     *)
(* v2..v9) as a state machine: one script run is a linear pass             *)
(*   token -> sessions -> session choice -> plays/balls -> merge -> filter *)
(* over pandas tables, with st.cache_data memoising the fetch functions    *)
(* across the reruns of one process.                                       *)
(***************************************************************************)
EXTENDS Integers, Sequences, FiniteSets, TLC

(***************************************************************************)
(* Bounds of the model.                                                    *)
(***************************************************************************)
MaxRows == 2       \* rows of a plays / balls table drawn exhaustively
MaxFilterRows == 3 \* rows of a table given to the filter of versions 1 to 3
MaxRuns == 2
MaxName == 2        \* longest text typed into the pitcher name filter of app.py       \* reruns of the script in one process

(***************************************************************************)
(* Cell values.  Every cell of a plays / balls table is an integer; NaN    *)
(* is pandas' missing marker (None / NaN / NaT).                           *)
(***************************************************************************)
NaN == -1
Pitch == 1
Hit == 2

IsNa(x) == x = NaN

Min2(a, b) == IF a <= b THEN a ELSE b

(***************************************************************************)
(* Tables.  A DataFrame is its column labels and its rows; a row maps each *)
(* column label to a cell.  pd.DataFrame() has neither.                    *)
(***************************************************************************)
EmptyDF == [cols |-> {}, rows |-> <<>>]

\* DataFrame.empty: true when either axis has length 0
IsEmpty(df) == df.cols = {} \/ df.rows = <<>>

\* df[mask]: the rows whose mask is true, in order
FilterRows(df, P(_)) == [cols |-> df.cols, rows |-> SelectSeq(df.rows, P)]

\* df[col].dropna().unique(): the option list of a multiselect
UniqueValues(df, col) == {df.rows[i][col] : i \in DOMAIN df.rows} \ {NaN}

(***************************************************************************)
(* Flattening.  JSON records are functions from keys to cells; the keys in *)
(* ObjKeys hold nested objects.  pd.json_normalize(data, sep) makes one    *)
(* column per leaf, named parent<sep>child; pd.DataFrame(data) keeps the   *)
(* nested object as one cell.                                              *)
(***************************************************************************)
ObjKeys == {"pitcher"}

FlatKeys(r, sep) ==
    {k \in DOMAIN r : k \notin ObjKeys}
    \cup UNION {{k \o sep \o j : j \in DOMAIN r[k]} : k \in DOMAIN r \cap ObjKeys}

FlatGet(r, sep, c) ==
    IF c \in DOMAIN r /\ c \notin ObjKeys THEN r[c]
    ELSE IF \E k \in DOMAIN r \cap ObjKeys : \E j \in DOMAIN r[k] : c = k \o sep \o j
         THEN LET k == CHOOSE k \in DOMAIN r \cap ObjKeys :
                           \E j \in DOMAIN r[k] : c = k \o sep \o j
                  j == CHOOSE j \in DOMAIN r[k] : c = k \o sep \o j
              IN  r[k][j]
         ELSE NaN

JsonNormalize(data, sep) ==
    LET cols == UNION {FlatKeys(data[i], sep) : i \in DOMAIN data}
    IN  [cols |-> cols,
         rows |-> [i \in DOMAIN data |-> [c \in cols |-> FlatGet(data[i], sep, c)]]]

\* pd.DataFrame(list of dicts): top-level keys only, nested objects stay cells
DataFrameOf(data) ==
    LET cols == UNION {DOMAIN data[i] : i \in DOMAIN data}
    IN  [cols |-> cols,
         rows |-> [i \in DOMAIN data |->
                     [c \in cols |-> IF c \in DOMAIN data[i] THEN data[i][c] ELSE NaN]]]

(***************************************************************************)
(* pd.merge(left, right, left_on=lk, right_on=rk, how=how, suffixes=sfx).   *)
(* One output row per (left row, right row) pair with equal key, in the    *)
(* order of the left rows; how="left" keeps a left row without a match,    *)
(* with the right side missing.  A key label absent from its table raises  *)
(* KeyError before any row is compared.  Missing keys match each other, as *)
(* in pandas.                                                              *)
(***************************************************************************)
MergeRaises(left, right, lk, rk) == lk \notin left.cols \/ rk \notin right.cols

Idx(n) == [j \in 1..n |-> j]

MatchIdxFirstOnly(left, right, lk, rk, i) ==
    LET all == SelectSeq(Idx(Len(right.rows)),
                         LAMBDA j : right.rows[j][rk] = left.rows[i][lk])
    IN  IF all = <<>> THEN <<>> ELSE <<all[1]>>

\* the right rows whose key equals the key of left row i, in right order
MatchIdx(left, right, lk, rk, i) ==
    SelectSeq(Idx(Len(right.rows)), LAMBDA j : right.rows[j][rk] = left.rows[i][lk])

RECURSIVE PairsFrom(_, _, _, _, _, _)
PairsFrom(left, right, lk, rk, how, i) ==
    IF i > Len(left.rows) THEN <<>>
    ELSE LET m == MatchIdx(left, right, lk, rk, i)
             here == IF m = <<>>
                     THEN (IF how = "left" THEN << <<i, 0>> >> ELSE <<>>)
                     ELSE [n \in DOMAIN m |-> <<i, m[n]>>]
         IN  here \o PairsFrom(left, right, lk, rk, how, i + 1)

MergePairsInner(left, right, lk, rk, how) == PairsFrom(left, right, lk, rk, "inner", 1)

\* the (left index, right index) pairs of the merge; right index 0: no match
MergePairs(left, right, lk, rk, how) == PairsFrom(left, right, lk, rk, how, 1)

\* column labels present on both sides, the shared key label excepted
Overlap(left, right, lk, rk) ==
    (left.cols \cap right.cols) \ (IF lk = rk THEN {lk} ELSE {})

LNameNoSuffix(left, right, lk, rk, sfx, c) == c

LName(left, right, lk, rk, sfx, c) ==
    IF c \in Overlap(left, right, lk, rk) THEN c \o sfx[1] ELSE c

RName(left, right, lk, rk, sfx, c) ==
    IF c \in Overlap(left, right, lk, rk) THEN c \o sfx[2] ELSE c

\* the right columns that get a column of their own in the output
RightOut(left, right, lk, rk) == right.cols \ (IF lk = rk THEN {rk} ELSE {})

MergeCols(left, right, lk, rk, sfx) ==
    {LName(left, right, lk, rk, sfx, c) : c \in left.cols}
    \cup {RName(left, right, lk, rk, sfx, c) : c \in RightOut(left, right, lk, rk)}

MergedRow(left, right, lk, rk, sfx, p) ==
    [c \in MergeCols(left, right, lk, rk, sfx) |->
        IF \E lc \in left.cols : LName(left, right, lk, rk, sfx, lc) = c
        THEN left.rows[p[1]][CHOOSE lc \in left.cols :
                                 LName(left, right, lk, rk, sfx, lc) = c]
        ELSE IF p[2] = 0 THEN NaN
        ELSE right.rows[p[2]][CHOOSE rc \in RightOut(left, right, lk, rk) :
                                  RName(left, right, lk, rk, sfx, rc) = c]]

Merge(left, right, lk, rk, how, sfx) ==
    LET pairs == MergePairs(left, right, lk, rk, how)
    IN  [cols |-> MergeCols(left, right, lk, rk, sfx),
         rows |-> [n \in DOMAIN pairs |-> MergedRow(left, right, lk, rk, sfx, pairs[n])]]

DefaultSuffixes == <<"_x", "_y">>

(***************************************************************************)
(* df.dropna(subset=[col]) and df.sort_values(col): ascending, missing     *)
(* values last, equal keys in their previous order.                        *)
(***************************************************************************)
DropNa(df, col) == FilterRows(df, LAMBDA r : ~IsNa(r[col]))

\* a sorts strictly before b
Before(a, b) == ~IsNa(a) /\ (IsNa(b) \/ a < b)

RECURSIVE InsertSorted(_, _, _)
InsertSorted(s, r, col) ==
    IF s = <<>> THEN <<r>>
    ELSE IF Before(r[col], s[1][col]) THEN <<r>> \o s
    ELSE <<s[1]>> \o InsertSorted(Tail(s), r, col)

RECURSIVE SortRows(_, _)
SortRows(s, col) ==
    IF s = <<>> THEN <<>>
    ELSE InsertSorted(SortRows(SubSeq(s, 1, Len(s) - 1), col), s[Len(s)], col)

SortValues(df, col) == [cols |-> df.cols, rows |-> SortRows(df.rows, col)]

\* df[col] = f(df[col]): assigning a column that exists keeps the labels
AssignCol(df, col, f(_)) ==
    [cols |-> df.cols \cup {col},
     rows |-> [i \in DOMAIN df.rows |->
                 [c \in df.cols \cup {col} |->
                     IF c = col THEN f(df.rows[i]) ELSE df.rows[i][c]]]]

(***************************************************************************)
(* The filters of the generic filter stage.                                *)
(***************************************************************************)
BetweenNaAsZero(v, lo, hi) == lo <= (IF IsNa(v) THEN 0 ELSE v) /\ (IF IsNa(v) THEN 0 ELSE v) <= hi

\* Series.between(lo, hi): inclusive on both ends, false for a missing value
Between(v, lo, hi) == ~IsNa(v) /\ lo <= v /\ v <= hi

NumericFilter(df, col, lo, hi) == FilterRows(df, LAMBDA r : Between(r[col], lo, hi))

\* df[df[col].isin(options)] if options else df
DiscreteFilterAlways(df, col, options) == FilterRows(df, LAMBDA r : r[col] \in options)

DiscreteFilter(df, col, options) ==
    IF options # {} THEN FilterRows(df, LAMBDA r : r[col] \in options) ELSE df

(***************************************************************************)
(* Text that the scripts slice or split is a sequence of characters.       *)
(***************************************************************************)
\* s[:n]
Prefix(s, n) == SubSeq(s, 1, Min2(n, Len(s)))

\* s.split(ch)[-1]: the text after the last ch (all of s when ch is absent)
AfterLast(s, ch) ==
    LET at == {i \in DOMAIN s : s[i] = ch}
    IN  IF at = {} THEN s
        ELSE SubSeq(s, (CHOOSE i \in at : \A j \in at : j <= i) + 1, Len(s))

\* s.split(ch)[0]: the text before the first ch (all of s when ch is absent)
BeforeFirst(s, ch) ==
    LET at == {i \in DOMAIN s : s[i] = ch}
    IN  IF at = {} THEN s
        ELSE SubSeq(s, 1, (CHOOSE i \in at : \A j \in at : i <= j) - 1)

\* dict(zip(keys, values)) over the rows of a table: a later row replaces an
\* earlier one with the same key
ZipDict(df, keyOf(_), valOf(_)) ==
    [k \in {keyOf(df.rows[i]) : i \in DOMAIN df.rows} |->
        valOf(df.rows[CHOOSE i \in DOMAIN df.rows :
                         /\ keyOf(df.rows[i]) = k
                         /\ \A j \in DOMAIN df.rows : keyOf(df.rows[j]) = k => j <= i])]

(***************************************************************************)
(* The remote API.  A response is a status code and a JSON body.           *)
(***************************************************************************)
OK == 200
Statuses == {200, 500}

Tok == "tok"
None == "None"

SidA == <<"a", "b", "c", "d", "e", "f", "g", "h", "1">>
SidB == <<"a", "b", "c", "d", "e", "f", "g", "h", "2">>

SessionA == [sessionId |-> SidA, sessionType |-> "Adhoc",
             homeTeam |-> [name |-> <<"H">>, shortName |-> "CSD_TRI"],
             awayTeam |-> [name |-> <<"A">>, shortName |-> "OTH"]]
SessionB == [sessionId |-> SidB, sessionType |-> "Adhoc",
             homeTeam |-> [name |-> <<"B">>, shortName |-> "OTH"],
             awayTeam |-> [name |-> <<"H">>, shortName |-> "CSD_TRI"]]
SessionC == [sessionId |-> <<"c">>, sessionType |-> "Game",
             homeTeam |-> [name |-> <<"H">>, shortName |-> "CSD_TRI"],
             awayTeam |-> [name |-> <<"A">>, shortName |-> "OTH"]]

\* two sessions of the same teams under the same name
SessionD == [sessionId |-> SidA, sessionName |-> <<"B", "p">>, sessionType |-> "Adhoc",
             homeTeam |-> [name |-> <<"H">>, shortName |-> "CSD_TRI"],
             awayTeam |-> [name |-> <<"A">>, shortName |-> "OTH"]]
SessionE == [sessionId |-> SidB, sessionName |-> <<"B", "p">>, sessionType |-> "Adhoc",
             homeTeam |-> [name |-> <<"H">>, shortName |-> "CSD_TRI"],
             awayTeam |-> [name |-> <<"A">>, shortName |-> "OTH"]]

\* bodies the sessions endpoint may answer with
SessionsPayloads == {<<>>, <<SessionA, SessionB>>, <<SessionC>>, <<SessionD, SessionE>>}
GoodSessions == {<<SessionA, SessionB>>}

\* bodies of the plays endpoint: well-formed plays, and plays without the key
PlayA == [playID |-> 1, pitcher |-> [id |-> 7, name |-> 3], utcDateTime |-> 2]
PlayB == [playID |-> 2, pitcher |-> [id |-> 8, name |-> 4], utcDateTime |-> 1]
PlayNoKey == [pitcher |-> [id |-> 7, name |-> 3], utcDateTime |-> 1]

\* the same plays with the key spelled as versions 4 and 5 expect it
PlayLowerA == [playId |-> 1, pitcher |-> [id |-> 7, name |-> 3], utcDateTime |-> 2]
PlayLowerB == [playId |-> 2, pitcher |-> [id |-> 8, name |-> 4], utcDateTime |-> 1]

PlaysPayloads == {<<>>, <<PlayA, PlayB>>, <<PlayLowerA, PlayLowerB>>, <<PlayNoKey>>}
GoodPlays == {<<PlayA, PlayB>>}

BallA == [playId |-> 1, kind |-> Pitch, speed |-> 2]
BallB == [playId |-> 1, kind |-> Hit, speed |-> 1]
BallC == [playId |-> 3, kind |-> Pitch, speed |-> NaN]
BallNoKey == [kind |-> Pitch, speed |-> 1]

BallsPayloads == {<<>>, <<BallA, BallB, BallC>>, <<BallNoKey>>}
GoodBalls == {<<BallA, BallB, BallC>>}

(***************************************************************************)
(* The scripts.  Version 1 is stream_data_app.py, version n is             *)
(* stream_data_app_vn.py.                                                  *)
(***************************************************************************)
Versions == 1..9

\* the date ranges the user can pick
Dates == {<<"2025-01-03">>, <<"2025-01-04">>}

VARIABLES
    version,        \* the script that runs in this process
    ids_numeric,    \* the API sends pitcher ids as JSON numbers (else as strings)
    runs,           \* script runs started so far
    healthy,        \* the remote answers 200 with well-formed bodies
    cache,          \* st.cache_data: per function, arguments -> stored result
    pc,             \* position of the current run in the script
    exc,            \* the unhandled exception that ended the run, or "none"
    date_range,     \* the date inputs of the run
    access_token, sessions_df, session_id, todo,
    play_df, ball_df, merged_df, all_merged_dfs,
    selection,      \* what the user chose in the filter widgets of the run
    displayed,      \* the filtered table shown and offered as CSV: <<>> or <<table>>
    shown,          \* st.error / st.warning / st.info elements of the run
    issued          \* HTTP requests issued in the run, with their status

vars == <<version, ids_numeric, runs, healthy, cache, pc, exc, date_range,
          access_token, sessions_df, session_id, todo, play_df, ball_df,
          merged_df, all_merged_dfs, selection, displayed, shown, issued>>

env == <<version, ids_numeric, runs, healthy, date_range>>

NoSelection == [kind |-> "none"]

Msg(kind, text, status) == [kind |-> kind, text |-> text, status |-> status]

(***************************************************************************)
(* st.cache_data.  A call with stored arguments returns the stored value   *)
(* and replays the elements the function showed; any other call runs the   *)
(* function, which issues one request, and stores what it returned (None   *)
(* and empty tables included).                                             *)
(***************************************************************************)
EmptyCache == [token |-> <<>>, sessions |-> <<>>, metadata |-> <<>>,
               plays |-> <<>>, balls |-> <<>>]

Responses(good, all) ==
    IF healthy THEN {[status |-> OK, body |-> b] : b \in good}
    ELSE {[status |-> OK, body |-> b] : b \in all}
         \cup {[status |-> st, body |-> <<>>] : st \in Statuses \ {OK}}

\* a fetch that asks again after a failure
RequestWithRetry(fn, key, status) ==
    {[endpoint |-> fn, key |-> key, status |-> st] : st \in {status, OK}}

\* response = requests.get(url, headers=headers): the one request of a fetch
Request(fn, key, status) == {[endpoint |-> fn, key |-> key, status |-> status]}

\* a function that is not memoized: no arguments are ever found stored
StoredNever(fn, key) == FALSE

\* st.cache_data: a result is stored for these arguments of this function
Stored(fn, key) == key \in DOMAIN cache[fn]

CachedCall(fn, key, resps, Result(_)) ==
    IF Stored(fn, key)
    THEN {[value |-> cache[fn][key].value, msgs |-> cache[fn][key].msgs,
           cache |-> cache, req |-> {}]}
    ELSE {[value |-> Result(r).value, msgs |-> Result(r).msgs,
           cache |-> [cache EXCEPT ![fn] = (key :> Result(r)) @@ cache[fn]],
           req |-> Request(fn, key, r.status)] : r \in resps}

\* a stored value shared with the caller: an assignment to the returned table
\* would be an assignment to the stored one
AfterAssignShared(fn, key, df) ==
    IF key \in DOMAIN cache[fn]
    THEN [cache EXCEPT ![fn] = (key :> [value |-> df, msgs |-> cache[fn][key].msgs])
                                @@ cache[fn]]
    ELSE cache

\* the cache after the script assigned a column of a table a cached function
\* returned: st.cache_data hands out a copy of what it stored
AfterAssign(fn, key, df) == cache

\* st.error(f"{text}: {status} ..."); stream_data_app_v4.py shows nothing
ErrorMsgs(text, status) ==
    IF version = 4 THEN {} ELSE {Msg("error", text, status)}

AuthErrorText == IF version \in {1, 2} THEN "Authentication failed" ELSE "Auth error"

SessionsErrorText == "Session fetch error"

PlaysErrorText ==
    CASE version \in {1, 2} -> "Failed to fetch data"
      [] version \in {3, 8, 9} -> "Play data fetch error"
      [] version = 5 -> "Play data error"
      [] OTHER -> "Plays fetch error"

BallsErrorText ==
    CASE version = 5 -> "Ball data error"
      [] version \in {8, 9} -> "Ball data fetch error"
      [] OTHER -> "Balls fetch error"

TokenResult(r) ==
    IF r.status = OK THEN [value |-> r.body, msgs |-> {}]
    ELSE [value |-> None, msgs |-> ErrorMsgs(AuthErrorText, r.status)]

SessionsResult(r) ==
    IF r.status = OK THEN [value |-> DataFrameOf(r.body), msgs |-> {}]
    ELSE [value |-> EmptyDF, msgs |-> ErrorMsgs(SessionsErrorText, r.status)]

MetadataResult(r) ==
    IF r.status = OK THEN [value |-> r.body, msgs |-> {}]
    ELSE [value |-> <<>>, msgs |-> ErrorMsgs("Session metadata error", r.status)]

\* the separator of the flattened column labels
Sep == IF version \in {8, 9} THEN "_" ELSE "."

PlaysFrame(data) ==
    IF version = 7 THEN DataFrameOf(data) ELSE JsonNormalize(data, Sep)

PlaysResult(r) ==
    IF r.status = OK THEN [value |-> PlaysFrame(r.body), msgs |-> {}]
    ELSE [value |-> EmptyDF, msgs |-> ErrorMsgs(PlaysErrorText, r.status)]

BallsResult(r) ==
    IF r.status = OK THEN [value |-> JsonNormalize(r.body, Sep), msgs |-> {}]
    ELSE [value |-> EmptyDF, msgs |-> ErrorMsgs(BallsErrorText, r.status)]

(***************************************************************************)
(* A run ends: normally, or with an unhandled exception.                   *)
(***************************************************************************)
Locals == <<access_token, sessions_df, session_id, todo, play_df, ball_df,
            merged_df, all_merged_dfs, selection, displayed>>

Raise(e) == pc' = "crashed" /\ exc' = e

Goto(p) == pc' = p /\ exc' = exc

InitLocals ==
    /\ access_token = None
    /\ sessions_df = EmptyDF
    /\ session_id = <<>>
    /\ todo = <<>>
    /\ play_df = EmptyDF
    /\ ball_df = EmptyDF
    /\ merged_df = EmptyDF
    /\ all_merged_dfs = <<>>
    /\ selection = NoSelection
    /\ displayed = <<>>
    /\ shown = {}
    /\ issued = {}

Init ==
    /\ version \in Versions
    /\ ids_numeric \in (IF version \in {8, 9} THEN BOOLEAN ELSE {FALSE})
    /\ runs = 0
    /\ healthy = TRUE
    /\ cache = EmptyCache
    /\ pc = "idle"
    /\ exc = "none"
    /\ date_range = <<"2025-01-03">>
    /\ InitLocals

(***************************************************************************)
(* A user interaction reruns the script from the top.  The script of       *)
(* version 2 first reads the session id from a text input and does nothing *)
(* when it is blank; version 1 has the session in its URL.                 *)
(***************************************************************************)
Rerun ==
    /\ pc \in {"idle", "done", "crashed"}
    /\ runs < MaxRuns
    /\ runs' = runs + 1
    /\ healthy' \in BOOLEAN
    /\ date_range' \in Dates
    /\ access_token' = None
    /\ sessions_df' = EmptyDF
    /\ todo' = <<>>
    /\ play_df' = EmptyDF
    /\ ball_df' = EmptyDF
    /\ merged_df' = EmptyDF
    /\ all_merged_dfs' = <<>>
    /\ selection' = NoSelection
    /\ displayed' = <<>>
    /\ shown' = {}
    /\ issued' = {}
    /\ exc' = "none"
    /\ session_id' \in (CASE version = 1 -> {<<"a", "b", "c">>}
                          [] version = 2 -> {<<"a", "b", "c">>, <<>>}
                          [] OTHER -> {<<>>})
    /\ pc' = IF version = 2 /\ session_id' = <<>> THEN "done" ELSE "auth"
    /\ UNCHANGED <<version, ids_numeric, cache>>

(***************************************************************************)
(* token = get_access_token(); if token: ...                               *)
(***************************************************************************)
GetAccessToken ==
    /\ pc = "auth"
    /\ \E r \in CachedCall("token", <<>>, Responses({Tok}, {Tok}), TokenResult) :
        /\ access_token' = r.value
        /\ cache' = r.cache
        /\ shown' = shown \cup r.msgs
        /\ issued' = issued \cup r.req
        /\ Goto(IF r.value = None THEN "done"
                ELSE IF version \in {1, 2} THEN "plays" ELSE "sessions")
    /\ UNCHANGED <<env, sessions_df, session_id, todo, play_df, ball_df,
                   merged_df, all_merged_dfs, selection, displayed>>

(***************************************************************************)
(* sessions_df = fetch_sessions(token, date_from, date_to)                 *)
(***************************************************************************)
FetchSessions ==
    /\ pc = "sessions"
    /\ \E r \in CachedCall("sessions", <<access_token, date_range>>,
                           Responses(GoodSessions, SessionsPayloads), SessionsResult) :
        /\ sessions_df' = r.value
        /\ cache' = r.cache
        /\ shown' = shown \cup r.msgs
        /\ issued' = issued \cup r.req
    /\ Goto("select")
    /\ UNCHANGED <<env, access_token, session_id, todo, play_df, ball_df,
                   merged_df, all_merged_dfs, selection, displayed>>

(***************************************************************************)
(* The session choice.  Every version builds a label per session and lets  *)
(* the user pick among the labels; what is sent on as the session id       *)
(* differs per version.                                                    *)
(***************************************************************************)
SidShown == 8

UnknownText == <<"U", "n", "k", "n", "o", "w", "n">>

RowGet(r, c, d) == IF c \in DOMAIN r THEN r[c] ELSE d

\* row.get(side, {}).get('name', 'Unknown')
TeamName(r, side) ==
    IF side \in DOMAIN r /\ "name" \in DOMAIN r[side] THEN r[side].name ELSE UnknownText

\* row.get(side, {}).get('shortName')
TeamShort(r, side) ==
    IF side \in DOMAIN r /\ "shortName" \in DOMAIN r[side] THEN r[side].shortName
    ELSE None

\* f"{home} vs {away} ({sid})"
TeamsLabel(r, sid) ==
    TeamName(r, "homeTeam") \o <<" vs ">> \o TeamName(r, "awayTeam")
    \o <<" ", "(">> \o sid \o <<")">>

\* format_session_row of version 6: the table has no column "homeTeam.name"
FormatSessionRow(r) ==
    RowGet(r, "homeTeam.name", <<"Unknown Home">>) \o <<" vs ">>
    \o RowGet(r, "awayTeam.name", <<"Unknown Away">>) \o <<" | ">>
    \o RowGet(r, "sessionId", <<>>)

SessionDisplay(r) ==
    CASE version = 6 -> FormatSessionRow(r)
      [] version \in {7, 8} -> TeamsLabel(r, Prefix(r["sessionId"], SidShown))
      [] OTHER -> TeamsLabel(r, r["sessionId"])

\* session_display.split('(')[-1].split(')')[0]
ParseSessionId(label) == BeforeFirst(AfterLast(label, "("), ")")

\* df.columns[0]: the first key of the JSON records
SessionKeyOrder == <<"sessionId", "sessionName", "sessionType", "homeTeam", "awayTeam">>

FirstCol(df) ==
    SessionKeyOrder[CHOOSE i \in DOMAIN SessionKeyOrder :
                       /\ SessionKeyOrder[i] \in df.cols
                       /\ \A j \in 1..(i - 1) : SessionKeyOrder[j] \notin df.cols]

IsAdhoc(r) == r["sessionType"] = "Adhoc"

IsTeam(r) ==
    TeamShort(r, "homeTeam") = "CSD_TRI" \/ TeamShort(r, "awayTeam") = "CSD_TRI"

\* the sequences without repetition over S: what a multiselect can return
Picks(S) ==
    {q \in UNION {[1..n -> S] : n \in 0..Cardinality(S)} :
        \A i, j \in DOMAIN q : q[i] = q[j] => i = j}

\* the column the labels come from, and the column the ids come from
DisplayCol(df) ==
    CASE version = 3 -> IF "sessionName" \in df.cols THEN "sessionName"
                        ELSE IF "sessionId" \in df.cols THEN "sessionId" ELSE FirstCol(df)
      [] version = 4 -> IF "sessionName" \in df.cols THEN "sessionName" ELSE FirstCol(df)
      [] OTHER -> IF "sessionName" \in df.cols THEN "sessionName" ELSE "sessionId"

IdCol(df) ==
    IF version = 5 \/ "sessionId" \in df.cols THEN "sessionId" ELSE FirstCol(df)

NoSessionsText ==
    CASE version = 5 -> "No sessions found."
      [] version \in {8, 9} -> "No Adhoc sessions found for the selected date range."
      [] OTHER -> "No sessions found in the selected date range."

AfterSelect == IF version = 5 THEN "metadata" ELSE "plays"

\* versions 3, 4, 5: session_map = dict(zip(labels, ids)); selectbox over its keys
SelectByMap(df) ==
    IF DisplayCol(df) \notin df.cols \/ IdCol(df) \notin df.cols
    THEN Raise("KeyError") /\ UNCHANGED <<sessions_df, session_id, todo, shown>>
    ELSE LET map == ZipDict(df, LAMBDA r : r[DisplayCol(df)], LAMBDA r : r[IdCol(df)])
         IN  /\ \E choice \in DOMAIN map : session_id' = map[choice]
             /\ Goto(AfterSelect)
             /\ UNCHANGED <<sessions_df, todo, shown>>

NoSessionsGoesOn ==
    /\ shown' = shown
    /\ Goto(AfterSelect)
    /\ UNCHANGED <<sessions_df, session_id, todo>>

NoSessions ==
    /\ shown' = IF version = 4 THEN shown
                ELSE shown \cup {Msg("warning", NoSessionsText, 0)}
    /\ Goto("done")
    /\ UNCHANGED <<sessions_df, session_id, todo>>

SelectV3 ==
    IF "sessionType" \notin sessions_df.cols
    THEN Raise("KeyError") /\ UNCHANGED <<sessions_df, session_id, todo, shown>>
    ELSE IF IsEmpty(FilterRows(sessions_df, IsAdhoc)) THEN NoSessions
    ELSE SelectByMap(FilterRows(sessions_df, IsAdhoc))

SelectV45 == IF IsEmpty(sessions_df) THEN NoSessions ELSE SelectByMap(sessions_df)

\* versions 6, 7: the label becomes a column of sessions_df
SelectV67 ==
    IF IsEmpty(sessions_df) THEN NoSessions
    ELSE IF "sessionId" \notin sessions_df.cols
    THEN Raise("KeyError") /\ UNCHANGED <<sessions_df, session_id, todo, shown>>
    ELSE LET col == IF version = 6 THEN "session_display" ELSE "sessionDisplay"
             df == AssignCol(sessions_df, col, SessionDisplay)
             map == ZipDict(df, LAMBDA r : r[col], LAMBDA r : r["sessionId"])
         IN  /\ sessions_df' = df
             /\ \E choice \in DOMAIN map :
                    session_id' =
                        IF version = 6 THEN map[choice]
                        ELSE FilterRows(df, LAMBDA r : r[col] = choice).rows[1]["sessionId"]
             /\ Goto(AfterSelect)
             /\ UNCHANGED <<todo, shown>>

\* versions 8, 9: Adhoc sessions of the team only; the id is parsed from the label
SelectV89 ==
    IF IsEmpty(sessions_df) THEN NoSessions
    ELSE IF "sessionType" \notin sessions_df.cols
    THEN Raise("KeyError") /\ UNCHANGED <<sessions_df, session_id, todo, shown>>
    ELSE LET kept == FilterRows(FilterRows(sessions_df, IsAdhoc), IsTeam)
             df == AssignCol(kept, "sessionDisplay", SessionDisplay)
             labels == {df.rows[i]["sessionDisplay"] : i \in DOMAIN df.rows}
         IN  IF kept.rows = <<>>
             THEN \* the label column cannot be assigned on a table without rows;
                  \* where pandas lets it pass, the selectbox of version 8 returns
                  \* None and the multiselect of version 9 an empty list
                  \/ Raise("ValueError") /\ UNCHANGED <<sessions_df, session_id, todo, shown>>
                  \/ /\ version = 8
                     /\ Raise("AttributeError")
                     /\ sessions_df' = kept
                     /\ UNCHANGED <<session_id, todo, shown>>
                  \/ /\ version = 9
                     /\ sessions_df' = kept
                     /\ Goto("concat")
                     /\ UNCHANGED <<session_id, todo, shown>>
             ELSE IF "sessionId" \notin kept.cols
             THEN Raise("KeyError") /\ UNCHANGED <<sessions_df, session_id, todo, shown>>
             ELSE /\ sessions_df' = df
                  /\ IF version = 8
                     THEN /\ \E choice \in labels : session_id' = ParseSessionId(choice)
                          /\ todo' = todo
                          /\ Goto("plays")
                     ELSE /\ \E picks \in Picks(labels) :
                                /\ todo' = picks
                                /\ session_id' =
                                     IF picks = <<>> THEN session_id
                                     ELSE ParseSessionId(picks[1])
                                /\ Goto(IF picks = <<>> THEN "concat" ELSE "plays")
                  /\ shown' = shown

SelectSession ==
    /\ pc = "select"
    /\ CASE version = 3 -> SelectV3
         [] version \in {4, 5} -> SelectV45
         [] version \in {6, 7} -> SelectV67
         [] OTHER -> SelectV89
    /\ cache' = IF version \in {6, 7} /\ sessions_df' # sessions_df
                THEN AfterAssign("sessions", <<access_token, date_range>>, sessions_df')
                ELSE cache
    /\ UNCHANGED <<env, access_token, play_df, ball_df, merged_df,
                   all_merged_dfs, selection, displayed, issued>>

(***************************************************************************)
(* The data fetches.                                                       *)
(***************************************************************************)
FetchMetadata ==
    /\ pc = "metadata"
    /\ \E r \in CachedCall("metadata", <<access_token, session_id>>,
                           Responses({<<"meta">>}, {<<"meta">>}), MetadataResult) :
        /\ cache' = r.cache
        /\ shown' = shown \cup r.msgs
        /\ issued' = issued \cup r.req
    /\ Goto("plays")
    /\ UNCHANGED <<env, Locals>>

\* fetch_data(token) of version 1 has the token as its only argument
PlaysKey == IF version = 1 THEN <<access_token>> ELSE <<access_token, session_id>>

NoPlaysMsgs ==
    CASE version = 2 -> {Msg("warning", "No data returned. Check the session ID.", 0)}
      [] version = 3 -> {Msg("warning", "No play-by-play data found for this session.", 0)}
      [] OTHER -> {}

FetchPlays ==
    /\ pc = "plays"
    /\ \E r \in CachedCall("plays", PlaysKey,
                           Responses(GoodPlays, PlaysPayloads), PlaysResult) :
        /\ play_df' = r.value
        /\ cache' = r.cache
        /\ issued' = issued \cup r.req
        /\ IF version <= 3
           THEN IF IsEmpty(r.value)
                THEN shown' = shown \cup r.msgs \cup NoPlaysMsgs /\ Goto("done")
                ELSE shown' = shown \cup r.msgs /\ Goto("filter")
           ELSE shown' = shown \cup r.msgs /\ Goto("balls")
    /\ UNCHANGED <<env, access_token, sessions_df, session_id, todo, ball_df,
                   merged_df, all_merged_dfs, selection, displayed>>

FetchBalls ==
    /\ pc = "balls"
    /\ \E r \in CachedCall("balls", <<access_token, session_id>>,
                           Responses(GoodBalls, BallsPayloads), BallsResult) :
        /\ ball_df' = r.value
        /\ cache' = r.cache
        /\ shown' = shown \cup r.msgs
        /\ issued' = issued \cup r.req
    /\ Goto("merge")
    /\ UNCHANGED <<env, access_token, sessions_df, session_id, todo, play_df,
                   merged_df, all_merged_dfs, selection, displayed>>

(***************************************************************************)
(* The merge of plays and balls.                                           *)
(***************************************************************************)
\* placeholders of the pitcher labels: 'Unknown', '' and 'NA'
Unknown == 90
Blank == 91
NA == 92

\* the text of a pitcher name / of a pitcher id cell
NameText(n) == CASE n = 3 -> <<"A", "l">> [] n = 4 -> <<"B", "o">> [] OTHER -> <<"?">>
IdText(i) == CASE i = 7 -> <<"7">> [] i = 8 -> <<"8">> [] OTHER -> <<"0">>

\* no label: the label of a row whose name is missing
NoText == <<>>

\* pd.to_datetime of a timestamp cell: a missing value stays missing
ToDatetime(x) == IF IsNa(x) THEN NaN ELSE x

MergeLocals == <<todo, session_id, play_df, ball_df, merged_df, all_merged_dfs,
                 selection, displayed>>

Crash(e) == Raise(e) /\ shown' = shown /\ UNCHANGED MergeLocals

NoData(kind, texts) ==
    /\ shown' = shown \cup {Msg(kind, t, 0) : t \in texts}
    /\ Goto("done")
    /\ UNCHANGED MergeLocals

BothPlaysOnly == ~IsEmpty(play_df)

Both == ~IsEmpty(play_df) /\ ~IsEmpty(ball_df)

IsAnyKind(r) == TRUE

IsPitch(r) == r["kind"] = Pitch

\* ball_df[ball_df["kind"] == "Pitch"]
PitchOnly(df) == FilterRows(df, IsPitch)

SortByTime(df) ==
    SortValues(AssignCol(df, "utcDateTime", LAMBDA r : ToDatetime(r["utcDateTime"])),
               "utcDateTime")

\* version 4: inner merge on "playId"
MergeV4 ==
    IF Both
    THEN IF MergeRaises(play_df, ball_df, "playId", "playId") THEN Crash("KeyError")
         ELSE /\ merged_df' = Merge(play_df, ball_df, "playId", "playId", "inner",
                                    <<"_play", "_ball">>)
              /\ Goto("filter")
              /\ shown' = shown
              /\ UNCHANGED <<todo, session_id, play_df, ball_df, all_merged_dfs,
                             selection, displayed>>
    ELSE NoData("warning", {"No play or ball data found for this session."})

\* version 5: left merge on "playId", guarded on the balls side only
MergeV5 ==
    IF Both /\ "playId" \in ball_df.cols
    THEN IF MergeRaises(play_df, ball_df, "playId", "playId") THEN Crash("KeyError")
         ELSE /\ merged_df' = Merge(play_df, ball_df, "playId", "playId", "left",
                                    DefaultSuffixes)
              /\ Goto("filter")
              /\ shown' = shown
              /\ UNCHANGED <<todo, session_id, play_df, ball_df, all_merged_dfs,
                             selection, displayed>>
    ELSE NoData("warning", {"Play or Ball data is empty or not mergeable."})

\* version 6: the pitcher multiselect comes first; inner merge of the plays of
\* the chosen pitchers with their Pitch balls
PitcherLabel6(r) == <<RowGet(r, "pitcher.name", Unknown), RowGet(r, "pitcher.id", Blank)>>

MergeV6 ==
    IF ~Both
    THEN NoData("warning",
                (IF IsEmpty(play_df) THEN {"No plays data found for this session."} ELSE {})
                \cup (IF IsEmpty(ball_df) THEN {"No balls data found for this session."}
                      ELSE {}))
    ELSE IF "pitcher.id" \notin play_df.cols THEN Crash("KeyError")
    ELSE LET plays == AssignCol(play_df, "pitcher_display", PitcherLabel6)
             map == ZipDict(plays, LAMBDA r : r["pitcher_display"],
                            LAMBDA r : r["pitcher.id"])
         IN  \E sel \in SUBSET (DOMAIN map) :
               LET ids == {map[k] : k \in sel}
                   fplays == FilterRows(plays, LAMBDA r : r["pitcher.id"] \in ids)
                   keys == {fplays.rows[i]["playID"] : i \in DOMAIN fplays.rows}
                   fballs == FilterRows(ball_df,
                                        LAMBDA r : IsPitch(r) /\ r["playId"] \in keys)
                   m == Merge(fplays, fballs, "playID", "playId", "inner",
                              <<"_play", "_ball">>)
               IN  IF sel = {}
                   THEN /\ shown' = shown \cup
                              {Msg("info", "Select at least one pitcher to filter data.", 0)}
                        /\ selection' = [kind |-> "pitchers", options |-> sel]
                        /\ play_df' = plays
                        /\ Goto("done")
                        /\ UNCHANGED <<todo, session_id, ball_df, merged_df,
                                       all_merged_dfs, displayed>>
                   ELSE IF \/ "kind" \notin ball_df.cols \/ "playId" \notin ball_df.cols
                           \/ "playID" \notin plays.cols
                   THEN Crash("KeyError")
                   ELSE IF IsEmpty(fplays) \/ IsEmpty(fballs)
                   THEN /\ shown' = shown \cup
                              {Msg("warning",
                                   "No data found for selected pitcher(s) with kind 'Pitch'.", 0)}
                        /\ selection' = [kind |-> "pitchers", options |-> sel]
                        /\ play_df' = plays
                        /\ Goto("done")
                        /\ UNCHANGED <<todo, session_id, ball_df, merged_df,
                                       all_merged_dfs, displayed>>
                   ELSE IF "utcDateTime" \notin m.cols THEN Crash("KeyError")
                   ELSE /\ merged_df' = SortByTime(m)
                        /\ displayed' = <<SortByTime(m)>>
                        /\ selection' = [kind |-> "pitchers", options |-> sel]
                        /\ play_df' = plays
                        /\ shown' = shown
                        /\ Goto("done")
                        /\ UNCHANGED <<todo, session_id, ball_df, all_merged_dfs>>

\* version 7: left merge of the plays with the Pitch balls, sorted by time
PitcherLabel7(r) == <<RowGet(r, "pitcher.name", Unknown), RowGet(r, "pitcher.id", NA)>>

MergeV7 ==
    IF ~Both
    THEN NoData("warning", {"No play or ball data found for selected session."})
    ELSE IF "kind" \notin ball_df.cols THEN Crash("KeyError")
    ELSE IF MergeRaises(play_df, PitchOnly(ball_df), "playID", "playId")
    THEN Crash("KeyError")
    ELSE LET m == Merge(play_df, PitchOnly(ball_df), "playID", "playId", "left",
                        DefaultSuffixes)
         IN  IF "utcDateTime" \notin m.cols THEN Crash("KeyError")
             ELSE /\ merged_df' = AssignCol(SortByTime(m), "pitcherDisplay", PitcherLabel7)
                  /\ ball_df' = PitchOnly(ball_df)
                  /\ Goto("filter")
                  /\ shown' = shown
                  /\ UNCHANGED <<todo, session_id, play_df, all_merged_dfs,
                                 selection, displayed>>

\* versions 8, 9: left merge of the Pitch balls with the plays; the rows
\* without a pitcher id are dropped
PitcherLabel8(r) ==
    IF IsNa(r["pitcher_name"]) THEN NoText
    ELSE NameText(r["pitcher_name"]) \o <<" ", "(">> \o IdText(r["pitcher_id"]) \o <<")">>

BallsWithPlays ==
    DropNa(Merge(PitchOnly(ball_df), play_df, "playId", "playID", "left",
                 DefaultSuffixes), "pitcher_id")

MergeRaises89 ==
    \/ "kind" \notin ball_df.cols
    \/ MergeRaises(PitchOnly(ball_df), play_df, "playId", "playID")
    \/ "pitcher_id" \notin play_df.cols
    \/ "utcDateTime" \notin BallsWithPlays.cols

MergeV8 ==
    IF ~Both
    THEN NoData("warning", {"No play or ball data found for this session."})
    ELSE IF MergeRaises89 \/ "pitcher_name" \notin BallsWithPlays.cols
    THEN Crash("KeyError")
    ELSE /\ merged_df' = AssignCol(SortByTime(BallsWithPlays), "pitcher_display",
                                   PitcherLabel8)
         /\ ball_df' = PitchOnly(ball_df)
         /\ Goto("filter")
         /\ shown' = shown
         /\ UNCHANGED <<todo, session_id, play_df, all_merged_dfs, selection, displayed>>

\* every table tagged with the id of the session selected first
SessionTagOfFirst ==
    IF all_merged_dfs = <<>> THEN session_id ELSE all_merged_dfs[1].rows[1]["sessionId"]

\* merged_df["sessionId"] = session_id
SessionTag == session_id

\* version 9: one merged table per selected session, tagged with the session id
MergeV9 ==
    IF Both /\ MergeRaises89 THEN Crash("KeyError")
    ELSE /\ IF Both
            THEN LET m == AssignCol(BallsWithPlays, "utcDateTime",
                                    LAMBDA r : ToDatetime(r["utcDateTime"]))
                     tagged == AssignCol(m, "sessionId", LAMBDA r : SessionTag)
                 IN  /\ merged_df' = tagged
                     /\ all_merged_dfs' = Append(all_merged_dfs, tagged)
                     /\ ball_df' = PitchOnly(ball_df)
            ELSE UNCHANGED <<merged_df, all_merged_dfs, ball_df>>
         /\ todo' = Tail(todo)
         /\ session_id' = IF Tail(todo) = <<>> THEN session_id
                          ELSE ParseSessionId(Tail(todo)[1])
         /\ Goto(IF Tail(todo) = <<>> THEN "concat" ELSE "plays")
         /\ shown' = shown
         /\ UNCHANGED <<play_df, selection, displayed>>

MergeStep ==
    /\ pc = "merge"
    /\ CASE version = 4 -> MergeV4
         [] version = 5 -> MergeV5
         [] version = 6 -> MergeV6
         [] version = 7 -> MergeV7
         [] version = 8 -> MergeV8
         [] OTHER -> MergeV9
    /\ cache' = IF version = 6 /\ play_df' # play_df
                THEN AfterAssign("plays", <<access_token, session_id>>, play_df')
                ELSE cache
    /\ UNCHANGED <<env, access_token, sessions_df, issued>>

(***************************************************************************)
(* Version 9 after the loop: the merged tables of the selected sessions    *)
(* are concatenated, sorted by time and given a relative time.             *)
(***************************************************************************)
RECURSIVE ConcatRows(_, _)
ConcatRows(dfs, cols) ==
    IF dfs = <<>> THEN <<>>
    ELSE [i \in DOMAIN dfs[1].rows |->
             [c \in cols |-> RowGet(dfs[1].rows[i], c, NaN)]]
         \o ConcatRows(Tail(dfs), cols)

\* pd.concat(dfs)
Concat(dfs) ==
    LET cols == UNION {dfs[i].cols : i \in DOMAIN dfs}
    IN  [cols |-> cols, rows |-> ConcatRows(dfs, cols)]

\* the greatest value in place of the least
ColMinAsMax(df, col) ==
    LET vals == {df.rows[i][col] : i \in DOMAIN df.rows} \ {NaN}
    IN  IF vals = {} THEN NaN ELSE CHOOSE v \in vals : \A w \in vals : w <= v

\* Series.min(): the least value that is not missing, missing when there is none
ColMin(df, col) ==
    LET vals == {df.rows[i][col] : i \in DOMAIN df.rows} \ {NaN}
    IN  IF vals = {} THEN NaN ELSE CHOOSE v \in vals : \A w \in vals : v <= w

ColMax(df, col) ==
    LET vals == {df.rows[i][col] : i \in DOMAIN df.rows} \ {NaN}
    IN  IF vals = {} THEN NaN ELSE CHOOSE v \in vals : \A w \in vals : w <= v

RelativeTime(df) ==
    AssignCol(df, "relativeTime",
              LAMBDA r : IF IsNa(r["utcDateTime"]) \/ IsNa(ColMin(df, "utcDateTime"))
                         THEN NaN ELSE r["utcDateTime"] - ColMin(df, "utcDateTime"))

ConcatStep ==
    /\ pc = "concat"
    /\ IF all_merged_dfs # <<>>
       THEN IF "pitcher_name" \notin Concat(all_merged_dfs).cols
            THEN Crash("KeyError")
            ELSE /\ merged_df' =
                      AssignCol(RelativeTime(SortValues(Concat(all_merged_dfs), "utcDateTime")),
                                "pitcher_display", PitcherLabel8)
                 /\ Goto("filter")
                 /\ shown' = shown
                 /\ UNCHANGED <<todo, session_id, play_df, ball_df, all_merged_dfs,
                                selection, displayed>>
       ELSE NoData("warning", {"No valid play or ball data found in selected sessions."})
    /\ UNCHANGED <<env, cache, access_token, sessions_df, issued>>

(***************************************************************************)
(* The pitcher filter of versions 7, 8 and 9.                              *)
(***************************************************************************)
\* s.replace(ch, '')
Remove(s, ch) == SelectSeq(s, LAMBDA c : c # ch)

\* s.strip()
RECURSIVE Strip(_)
Strip(s) ==
    IF s = <<>> THEN s
    ELSE IF s[1] = " " THEN Strip(Tail(s))
    ELSE IF s[Len(s)] = " " THEN Strip(SubSeq(s, 1, Len(s) - 1))
    ELSE s

\* pitcher_display.split('(')[-1].replace(')', '').strip()
ParsePitcherId(label) == Strip(Remove(AfterLast(label, "("), ")"))

\* merged_df['pitcher_id'] == selected_pitcher_id: a number never equals a text
IdEquals(cell, text) == ~ids_numeric /\ IdText(cell) = text

PitcherFilterV7 ==
    LET options == {merged_df.rows[i]["pitcherDisplay"] : i \in DOMAIN merged_df.rows}
    IN  \E sel \in SUBSET options :
          /\ selection' = [kind |-> "pitchers", options |-> sel]
          /\ IF sel # {}
             THEN /\ displayed' = <<FilterRows(merged_df,
                                      LAMBDA r : r["pitcherDisplay"] \in sel)>>
                  /\ shown' = shown
             ELSE /\ displayed' = displayed
                  /\ shown' = shown \cup {Msg("warning",
                       "Please select at least one pitcher to view filtered data and plots.", 0)}
          /\ Goto("done")

PitcherFilterV89 ==
    LET options == {merged_df.rows[i]["pitcher_display"] : i \in DOMAIN merged_df.rows}
                   \ {NoText}
    IN  IF options = {}
        THEN Raise("AttributeError") /\ UNCHANGED <<selection, displayed, shown>>
        ELSE \E choice \in options :
               /\ selection' = [kind |-> "pitcher", options |-> {choice}]
               /\ displayed' = <<FilterRows(merged_df,
                      LAMBDA r : IdEquals(r["pitcher_id"], ParsePitcherId(choice)))>>
               /\ shown' = shown
               /\ Goto("done")

(***************************************************************************)
(* The generic filter stage of versions 1 to 5: the user picks a column;   *)
(* a numeric column gets a range slider, any other column a multiselect.   *)
(***************************************************************************)
NumericCols == {"speed"}

\* pd.api.types.is_numeric_dtype(df[col])
IsNumericDtype(df, col) == col \in NumericCols /\ ~IsNa(ColMin(df, col))

\* pd.api.types.is_datetime64_any_dtype(df[col]): a JSON table has no such column
IsDatetimeDtype(df, col) == FALSE

\* the table the filter stage works on
FilterInput == IF version <= 3 THEN play_df ELSE merged_df

GenericFilter ==
    \E col \in FilterInput.cols :
        /\ IF IsNumericDtype(FilterInput, col)
           THEN \E lo, hi \in ColMin(FilterInput, col)..ColMax(FilterInput, col) :
                  /\ lo <= hi
                  /\ selection' = [kind |-> "numeric", col |-> col, lo |-> lo, hi |-> hi]
                  /\ displayed' = <<NumericFilter(FilterInput, col, lo, hi)>>
           ELSE IF version \in {1, 2} /\ IsDatetimeDtype(FilterInput, col)
           THEN /\ selection' = [kind |-> "date", col |-> col]
                /\ displayed' = <<FilterInput>>
           ELSE \E options \in SUBSET UniqueValues(FilterInput, col) :
                  /\ selection' = [kind |-> "discrete", col |-> col, options |-> options]
                  /\ displayed' = <<DiscreteFilter(FilterInput, col, options)>>
        /\ shown' = shown
        /\ Goto("done")

FilterStep ==
    /\ pc = "filter"
    /\ CASE version <= 5 -> GenericFilter
         [] version = 7 -> PitcherFilterV7
         [] OTHER -> PitcherFilterV89
    /\ UNCHANGED <<env, cache, access_token, sessions_df, session_id, todo, play_df,
                   ball_df, merged_df, all_merged_dfs, issued>>

Next == Rerun \/ GetAccessToken \/ FetchSessions \/ SelectSession
        \/ FetchMetadata \/ FetchPlays \/ FetchBalls \/ MergeStep
        \/ ConcatStep \/ FilterStep

Spec == Init /\ [][Next]_vars

(***************************************************************************)
(* The data stages on every table within the bounds.  The run is past its  *)
(* fetches: versions 1 to 3 are about to filter the fetched table,         *)
(* versions 4 to 9 are about to merge the fetched plays and balls.         *)
(***************************************************************************)
SeqsUpTo(S, n) == UNION {[1..m -> S] : m \in 0..n}

KeyVals == {1, 2}
PitcherVals == {7, NaN}
SpeedVals == {NaN, 0, 1}

\* a play's pitcher name and timestamp follow from its pitcher and its key
PitcherName(p) == IF IsNa(p) THEN NaN ELSE 3
PlayTime(k) == 3 - k

\* a ball's speed follows from its play and its kind: only pitches are measured
BallSpeed(k, kd) == IF kd = Pitch THEN k ELSE NaN

PlayRecords(key) ==
    {(key :> k) @@ [pitcher |-> [id |-> p, name |-> PitcherName(p)],
                    utcDateTime |-> PlayTime(k)] : k \in KeyVals, p \in PitcherVals}

BallRecords ==
    {[playId |-> k, kind |-> kd, speed |-> BallSpeed(k, kd)] :
        k \in KeyVals, kd \in {Pitch, Hit}}

\* balls that carry a timestamp of their own, a column the plays have too
BallRecordsTimed ==
    {[playId |-> k, kind |-> kd, speed |-> BallSpeed(k, kd), utcDateTime |-> PlayTime(k)] :
        k \in KeyVals, kd \in {Pitch, Hit}}

\* the balls payloads: with the shared column for the versions that merge
\* with suffixes
BallData ==
    SeqsUpTo(BallRecords, MaxRows)
    \cup (IF version \in {4, 6} THEN SeqsUpTo(BallRecordsTimed, MaxRows) ELSE {})

FilterRecords == {[kind |-> kd, speed |-> sp] : kd \in {Pitch, Hit}, sp \in SpeedVals}

\* version 9 in the middle of its loop: the session selected before this one
\* had one pitch of another pitcher, thrown before the plays of this session
EarlierPlay == [playID |-> 1, pitcher |-> [id |-> 8, name |-> 4], utcDateTime |-> 0]
EarlierBall == [playId |-> 1, kind |-> Pitch, speed |-> 1]

EarlierMerged ==
    LET m == DropNa(Merge(JsonNormalize(<<EarlierBall>>, "_"),
                          JsonNormalize(<<EarlierPlay>>, "_"),
                          "playId", "playID", "left", DefaultSuffixes), "pitcher_id")
    IN  AssignCol(AssignCol(m, "utcDateTime", LAMBDA r : ToDatetime(r["utcDateTime"])),
                  "sessionId", LAMBDA r : SidB)

\* the merged tables of the sessions the loop went through before this one
EarlierTables == IF version = 9 THEN {<<>>, <<EarlierMerged>>} ELSE {<<>>}

\* the key label of the plays a version expects
PlaysKeyLabel == IF version \in {4, 5} THEN "playId" ELSE "playID"

SelectedSessions ==
    LET df == DataFrameOf(<<SessionA, SessionB>>)
    IN  CASE version \in {1, 2} -> EmptyDF
          [] version \in {3, 4, 5} -> df
          [] version = 6 -> AssignCol(df, "session_display", SessionDisplay)
          [] OTHER -> AssignCol(df, "sessionDisplay", SessionDisplay)

InitData ==
    /\ version \in Versions
    /\ ids_numeric \in (IF version \in {8, 9} THEN BOOLEAN ELSE {FALSE})
    /\ runs = 1
    /\ healthy = TRUE
    /\ cache = EmptyCache
    /\ exc = "none"
    /\ date_range = <<"2025-01-03">>
    /\ access_token = Tok
    /\ sessions_df = SelectedSessions
    /\ session_id = CASE version \in {1, 2} -> <<"a", "b", "c">>
                      [] version = 8 -> Prefix(SidA, SidShown)
                      [] OTHER -> SidA
    /\ todo = IF version = 9 THEN <<SessionDisplay(SessionA)>> ELSE <<>>
    /\ IF version <= 3
       THEN /\ pc = "filter"
            /\ \E data \in SeqsUpTo(FilterRecords, MaxFilterRows) \ {<<>>} :
                   play_df = JsonNormalize(data, Sep)
            /\ ball_df = EmptyDF
       ELSE /\ pc = "merge"
            /\ \E data \in SeqsUpTo(PlayRecords(PlaysKeyLabel), MaxRows) :
                   play_df = PlaysFrame(data)
            /\ \E data \in BallData :
                   ball_df = JsonNormalize(data, Sep)
    /\ merged_df = EmptyDF
    /\ all_merged_dfs \in EarlierTables
    /\ selection = NoSelection
    /\ displayed = <<>>
    /\ shown = {}
    /\ issued = {}

NextData == MergeStep \/ ConcatStep \/ FilterStep

SpecData == InitData /\ [][NextData]_vars

(***************************************************************************)
(* Failures of the remote calls.                                           *)
(***************************************************************************)
\* a request of this run to the endpoint came back with a status other than 200
Failed(endpoint) == \E q \in issued : q.endpoint = endpoint /\ q.status # OK

\* C1: a run in which a sessions, plays or balls request came back with a
\* status other than 200 goes on without an unhandled exception.
C1_FailedFetchRecovers ==
    (Failed("sessions") \/ Failed("plays") \/ Failed("balls")) => exc = "none"

\* C2: in a run in which every request would succeed, the token is obtained
\* whatever failed in the runs before it.
C2_LaterRunNotBlocked ==
    (healthy /\ pc \notin {"idle", "auth"} /\ ~(version = 2 /\ session_id = <<>>))
        => access_token = Tok

\* C7: non-empty plays and balls of which one lacks the join key do not end
\* the run with an unhandled exception.
KeyAbsent ==
    /\ Both
    /\ \/ PlaysKeyLabel \notin play_df.cols
       \/ "playId" \notin ball_df.cols

C7_MissingKeyRecovered ==
    (version >= 4 /\ KeyAbsent) => exc = "none"

\* C10: every request of the run that came back with a status other than 200
\* has an error message on the page that names the step and the status.
StepText(endpoint) ==
    CASE endpoint = "token" -> AuthErrorText
      [] endpoint = "sessions" -> SessionsErrorText
      [] endpoint = "metadata" -> "Session metadata error"
      [] endpoint = "plays" -> PlaysErrorText
      [] OTHER -> BallsErrorText

C10_FailureShown ==
    \A q \in issued :
        q.status # OK => Msg("error", StepText(q.endpoint), q.status) \in shown

(***************************************************************************)
(* A balls fetch that fails while the plays fetch of the session succeeds. *)
(***************************************************************************)
NoDataTexts ==
    {"No play or ball data found for this session.",
     "Play or Ball data is empty or not mergeable.",
     "No balls data found for this session.",
     "No play or ball data found for selected session.",
     "No valid play or ball data found in selected sessions."}

NoDataWarned == \E m \in shown : m.kind = "warning" /\ m.text \in NoDataTexts

\* this run asked for the plays and the balls of the session: the plays came
\* with status 200, the balls with another status
BallsFailedPlaysOk(sid) ==
    /\ \E q \in issued : q.endpoint = "plays" /\ q.status = OK /\ q.key = <<access_token, sid>>
    /\ \E q \in issued : q.endpoint = "balls" /\ q.status # OK /\ q.key = <<access_token, sid>>

\* C9 as stated: a run in which the balls of a session failed and its plays
\* succeeded ends with the no-data warning on the page.
C9_NoDataWarningShown ==
    (pc = "done" /\ \E q \in issued : q.endpoint = "balls" /\ BallsFailedPlaysOk(q.key[2]))
        => NoDataWarned

C9_SessionState ==
    (version >= 4 /\ pc \in {"merge", "done"} /\ BallsFailedPlaysOk(session_id)) =>
        /\ exc = "none"
        /\ IsEmpty(ball_df)
        /\ play_df = cache["plays"][<<access_token, session_id>>].value
        /\ (version <= 8 /\ pc = "done") =>
              NoDataWarned /\ merged_df = EmptyDF /\ displayed = <<>>

C9_AllFailedState ==
    (version = 9 /\ pc = "done" /\ Failed("balls") /\ all_merged_dfs = <<>>) => NoDataWarned

C9_NoMergeStep ==
    (pc = "merge" /\ IsEmpty(ball_df)) =>
        /\ merged_df' = merged_df
        /\ all_merged_dfs' = all_merged_dfs
        /\ play_df' = play_df
        /\ exc' = "none"

\* C9, amended: when the balls of a session fail and its plays succeed, the
\* plays table is the one the fetch returned, no merge is made for that
\* session and nothing is raised; versions 4 to 8 end the run with the
\* no-data warning, version 9 goes on to the next selected session and warns
\* only when no selected session gave a merged table.
C9_FailedBallsSkipMerge ==
    /\ [](C9_SessionState /\ C9_AllFailedState)
    /\ [][C9_NoMergeStep]_vars

C9_Witness ==
    /\ version \in 4..8
    /\ pc = "done"
    /\ BallsFailedPlaysOk(session_id)
    /\ ~IsEmpty(play_df)
    /\ NoDataWarned

(***************************************************************************)
(* The filters.                                                            *)
(***************************************************************************)
EmptySelectionTexts ==
    {"Select at least one pitcher to filter data.",
     "Please select at least one pitcher to view filtered data and plots."}

C4_Kept(r) ==
    /\ r[selection.col] # NaN
    /\ selection.lo <= r[selection.col]
    /\ r[selection.col] <= selection.hi

C4_RangeInclusive ==
    (pc = "done" /\ selection.kind = "numeric") =>
        /\ Len(displayed) = 1
        /\ displayed[1].cols = FilterInput.cols
        /\ displayed[1].rows = SelectSeq(FilterInput.rows, C4_Kept)
        /\ \A i \in DOMAIN FilterInput.rows :
              FilterInput.rows[i][selection.col] \in {selection.lo, selection.hi}
                 => \E j \in DOMAIN displayed[1].rows :
                        displayed[1].rows[j] = FilterInput.rows[i]
        /\ \A j \in DOMAIN displayed[1].rows : displayed[1].rows[j][selection.col] # NaN

C4_Witness ==
    /\ pc = "done"
    /\ selection.kind = "numeric"
    /\ selection.lo < selection.hi
    /\ \E i, j, k \in DOMAIN FilterInput.rows :
          /\ FilterInput.rows[i][selection.col] = selection.lo
          /\ FilterInput.rows[j][selection.col] = selection.hi
          /\ FilterInput.rows[k][selection.col] = NaN
    /\ Len(displayed[1].rows) = 2

(***************************************************************************)
(* The merges.                                                             *)
(***************************************************************************)
\* the number of rows of the table that satisfy P
Count(df, P(_)) == Cardinality({i \in DOMAIN df.rows : P(df.rows[i])})

RECURSIVE SumOver(_, _)
SumOver(S, f) ==
    IF S = {} THEN 0
    ELSE LET k == CHOOSE x \in S : TRUE IN f[k] + SumOver(S \ {k}, f)

\* the plays of the pitchers chosen in version 6
ChosenPlay(r) ==
    \E i \in DOMAIN play_df.rows :
        /\ play_df.rows[i]["pitcher_display"] \in selection.options
        /\ play_df.rows[i]["pitcher.id"] = r["pitcher.id"]

\* C5: an inner merge has as many rows as the sum, over the key values, of
\* the number of left rows with the key times the number of right rows with
\* it: the merge on "playId" of version 4, and the merge of the chosen
\* pitchers' plays with the Pitch balls of version 6.
C5_InnerMergeCount ==
    /\ (version = 4 /\ pc = "filter") =>
          Len(merged_df.rows) =
              SumOver(KeyVals, [k \in KeyVals |->
                  Count(play_df, LAMBDA r : r["playId"] = k)
                  * Count(ball_df, LAMBDA r : r["playId"] = k)])
    /\ (version = 6 /\ pc = "done" /\ displayed # <<>>) =>
          /\ Len(displayed[1].rows) =
                SumOver(KeyVals, [k \in KeyVals |->
                    Count(play_df, LAMBDA r : ChosenPlay(r) /\ r["playID"] = k)
                    * Count(ball_df, LAMBDA r : r["kind"] = Pitch /\ r["playId"] = k)])
          /\ \A n \in DOMAIN displayed[1].rows :
                displayed[1].rows[n]["playID"] = displayed[1].rows[n]["playId"]

C5_Witness ==
    /\ version = 4
    /\ pc = "filter"
    /\ Len(play_df.rows) = 2
    /\ Len(ball_df.rows) = 2
    /\ Len(merged_df.rows) = 4

\* the merged table has a row that repeats the left row on the left columns
Appears(row, cols, merged) ==
    \E n \in DOMAIN merged.rows : \A c \in cols : merged.rows[n][c] = row[c]

\* ... and has nothing in the right columns
AppearsUnmatched(row, cols, rcols, merged) ==
    \E n \in DOMAIN merged.rows :
        /\ \A c \in cols : merged.rows[n][c] = row[c]
        /\ \A c \in rcols : merged.rows[n][c] = NaN

LeftMerged ==
    \/ version \in {5, 7, 8} /\ pc = "filter"
    \/ version = 9 /\ pc \in {"concat", "filter"} /\ all_merged_dfs # <<>>

\* the merged rows of the session at hand: in version 9 the combined table
\* has the rows of the other selected sessions too
OwnRows ==
    IF version = 9 THEN FilterRows(merged_df, LAMBDA r : r["sessionId"] = session_id)
    ELSE merged_df

\* C6 as stated: in the versions that merge in left mode every row of the
\* left table is in the merged table that goes on to the filter.
C6_LeftRowsKept ==
    LeftMerged =>
        LET left == IF version \in {5, 7} THEN play_df ELSE ball_df
        IN  \A i \in DOMAIN left.rows : Appears(left.rows[i], left.cols, merged_df)

\* C6, amended: versions 5 and 7 keep every play, a play without a ball with
\* nothing in the ball columns; versions 8 and 9 merge the Pitch balls with
\* the plays and then drop the rows without a pitcher id, so a ball is kept
\* exactly when a play with its key and with a pitcher id exists.
C6_LeftRowsKeptUnlessDropped ==
    /\ (version \in {5, 7} /\ pc = "filter") =>
          \A i \in DOMAIN play_df.rows :
             /\ Appears(play_df.rows[i], play_df.cols, merged_df)
             /\ (\A j \in DOMAIN ball_df.rows :
                    ball_df.rows[j]["playId"] # play_df.rows[i][PlaysKeyLabel])
                 => AppearsUnmatched(play_df.rows[i], play_df.cols,
                                     ball_df.cols \ {PlaysKeyLabel}, merged_df)
    /\ (version \in {8, 9} /\ LeftMerged) =>
          \A j \in DOMAIN ball_df.rows :
             Appears(ball_df.rows[j], ball_df.cols, OwnRows)
             <=> \E i \in DOMAIN play_df.rows :
                    /\ play_df.rows[i]["playID"] = ball_df.rows[j]["playId"]
                    /\ play_df.rows[i]["pitcher_id"] # NaN

C6_Witness ==
    /\ version \in {5, 7}
    /\ pc = "filter"
    /\ \E i, k \in DOMAIN play_df.rows :
          /\ AppearsUnmatched(play_df.rows[i], play_df.cols,
                              ball_df.cols \ {PlaysKeyLabel}, merged_df)
          /\ \E n \in DOMAIN merged_df.rows :
                /\ merged_df.rows[n]["kind"] = Pitch
                /\ merged_df.rows[n][PlaysKeyLabel] = play_df.rows[k][PlaysKeyLabel]

\* C8: in the versions that keep only the balls of kind "Pitch" before the
\* merge, every merged row that has a ball has a ball of kind "Pitch".
FromPitch(df) ==
    \A n \in DOMAIN df.rows :
        \/ df.rows[n]["kind"] = Pitch
        \/ df.rows[n]["kind"] = NaN /\ df.rows[n]["playId"] = NaN

C8_OnlyPitchBalls ==
    version >= 6 =>
        /\ "kind" \in merged_df.cols => FromPitch(merged_df)
        /\ \A n \in DOMAIN displayed : FromPitch(displayed[n])
        /\ \A n \in DOMAIN all_merged_dfs : FromPitch(all_merged_dfs[n])

C8_Witness ==
    /\ version = 6
    /\ pc = "done"
    /\ displayed # <<>>
    /\ \E j \in DOMAIN ball_df.rows, n \in DOMAIN displayed[1].rows :
          /\ ball_df.rows[j]["kind"] = Hit
          /\ ball_df.rows[j]["playId"] = displayed[1].rows[n]["playID"]

(***************************************************************************)
(* The cached fetchers and the tables they return.                         *)
(***************************************************************************)
SessionsKey == <<access_token, date_range>>

\* C11: what a cached fetcher stored for its arguments never changes, whatever
\* the script assigns or filters afterwards, and every call with these
\* arguments returns the stored table.
C11_StoredTableKept ==
    \A fn \in DOMAIN cache : \A key \in DOMAIN cache[fn] :
        key \in DOMAIN cache'[fn] /\ cache'[fn][key] = cache[fn][key]

C11_CallReturnsStored ==
    /\ pc = "select" => sessions_df = cache["sessions"][SessionsKey].value
    /\ (pc = "balls" \/ (pc = "filter" /\ version <= 3))
          => play_df = cache["plays"][PlaysKey].value
    /\ pc = "merge" => ball_df = cache["balls"][<<access_token, session_id>>].value

C11_CacheImmutable ==
    /\ [][C11_StoredTableKept]_vars
    /\ []C11_CallReturnsStored

\* a second run of version 6 got its plays from the cache and gave them the
\* pitcher_display column; the stored plays have no such column
C11_Witness ==
    /\ version = 6
    /\ runs = 2
    /\ pc = "done"
    /\ \A q \in issued : q.endpoint # "plays"
    /\ "pitcher_display" \in play_df.cols
    /\ "session_display" \in sessions_df.cols
    /\ "pitcher_display" \notin cache["plays"][PlaysKey].value.cols
    /\ "session_display" \notin cache["sessions"][SessionsKey].value.cols

(***************************************************************************)
(* No session to choose from.                                              *)
(***************************************************************************)
\* the sessions the script offers: the Adhoc ones in version 3, the Adhoc
\* ones of the team in versions 8 and 9
NoSessionLeft ==
    \/ IsEmpty(sessions_df)
    \/ /\ version = 3
       /\ "sessionType" \in sessions_df.cols
       /\ IsEmpty(FilterRows(sessions_df, IsAdhoc))
    \/ /\ version \in {8, 9}
       /\ "sessionType" \in sessions_df.cols
       /\ IsEmpty(FilterRows(FilterRows(sessions_df, IsAdhoc), IsTeam))

\* C12: a run that got its token and is left with no session ends without an
\* exception and with the no-sessions warning on the page.
C12_NoSessionsWarned ==
    (version >= 3 /\ access_token = Tok /\ pc \in {"done", "crashed"} /\ NoSessionLeft)
        => /\ exc = "none"
           /\ Msg("warning", NoSessionsText, 0) \in shown

(***************************************************************************)
(* Flattening of the plays.                                                *)
(***************************************************************************)
\* the table has one row per record, and each leaf of the record's pitcher
\* object and each plain field in a column of its own
Lossless(data, df) ==
    /\ Len(df.rows) = Len(data)
    /\ \A i \in DOMAIN data :
          /\ \A leaf \in DOMAIN data[i]["pitcher"] :
                /\ ("pitcher" \o Sep \o leaf) \in df.cols
                /\ df.rows[i]["pitcher" \o Sep \o leaf] = data[i]["pitcher"][leaf]
          /\ \A k \in DOMAIN data[i] \ ObjKeys :
                k \in df.cols /\ df.rows[i][k] = data[i][k]

\* C13: in the versions that read the pitcher columns (6 to 9) the plays
\* table is a lossless flattening of the payload it was built from.
C13_FlatteningLossless ==
    (version >= 6 /\ pc = "merge") =>
        \A data \in SeqsUpTo(PlayRecords(PlaysKeyLabel), MaxRows) :
            play_df = PlaysFrame(data) => Lossless(data, play_df)

(***************************************************************************)
(* Column labels of the merges that pass suffixes.                         *)
(***************************************************************************)
\* the labels the plays and the balls share, the common key label apart
SharedCols == (play_df.cols \cap ball_df.cols) \ {PlaysKeyLabel}

\* C14: in the merge of version 4 a label of both tables is in the result
\* once per side, as label_play and label_ball with that side's values, and
\* not under its own name, and the common key "playId" is there once; the
\* merge of version 6, whose keys have different labels, keeps both key
\* columns, and its result has the column "utcDateTime" the script reads
\* next only when the balls have no such column.
C14_SuffixedColumns ==
    /\ (version = 4 /\ pc = "filter") =>
          /\ "playId" \in merged_df.cols
          /\ {"playId_play", "playId_ball"} \cap merged_df.cols = {}
          /\ \A c \in SharedCols :
                /\ c \notin merged_df.cols
                /\ {c \o "_play", c \o "_ball"} \subseteq merged_df.cols
          /\ \A n \in DOMAIN merged_df.rows :
                \E i \in DOMAIN play_df.rows, j \in DOMAIN ball_df.rows :
                    /\ play_df.rows[i]["playId"] = merged_df.rows[n]["playId"]
                    /\ ball_df.rows[j]["playId"] = merged_df.rows[n]["playId"]
                    /\ \A c \in SharedCols :
                          /\ merged_df.rows[n][c \o "_play"] = play_df.rows[i][c]
                          /\ merged_df.rows[n][c \o "_ball"] = ball_df.rows[j][c]
    /\ (version = 6 /\ displayed # <<>>) =>
          /\ {"playID", "playId"} \subseteq displayed[1].cols
          /\ "utcDateTime" \notin ball_df.cols
    /\ (version = 6 /\ exc = "KeyError") => "utcDateTime" \in SharedCols

C14_Witness ==
    /\ version = 4
    /\ pc = "filter"
    /\ SharedCols = {"utcDateTime"}
    /\ {"utcDateTime_play", "utcDateTime_ball"} \subseteq merged_df.cols
    /\ Len(merged_df.rows) = 2

(***************************************************************************)
(* The order of the stages within a run.                                   *)
(***************************************************************************)
AfterToken == {"sessions", "select", "metadata", "plays", "balls", "merge", "concat", "filter"}

TokenFirst ==
    /\ pc \in AfterToken => access_token = Tok
    /\ \A q \in issued : q.endpoint # "token" => access_token = Tok

\* the session asked for is one of a sessions table that is not empty
SessionChosen ==
    /\ ~IsEmpty(sessions_df)
    /\ \E i \in DOMAIN sessions_df.rows :
          session_id \in {sessions_df.rows[i]["sessionId"],
                          Prefix(sessions_df.rows[i]["sessionId"], SidShown)}

SessionFirst ==
    /\ pc \in {"metadata", "plays", "balls", "merge"} => SessionChosen
    /\ (\E q \in issued : q.endpoint \in {"metadata", "plays", "balls"}) => ~IsEmpty(sessions_df)

\* a step of the merge stage that makes a merged table or displays one
Merges ==
    /\ pc = "merge"
    /\ \/ merged_df' # merged_df
       \/ all_merged_dfs' # all_merged_dfs
       \/ displayed' # displayed

\* C15 as stated: in every version no data request without a token, no plays
\* or balls request without a session chosen from a sessions table that is
\* not empty, no merge without both tables.
C15_StagesInOrder == TokenFirst /\ SessionFirst

\* C15, amended: the token comes first in every version; in versions 3 to 9
\* the plays and balls are asked for only for a session chosen from a
\* sessions table that is not empty (versions 1 and 2 have no sessions stage:
\* they ask for the plays of a fixed or typed session id right after the
\* token); a merge is made only of a plays and a balls table that are both
\* not empty.
C15_StagesInOrderWithSessions ==
    /\ [](TokenFirst /\ (version >= 3 => SessionFirst))
    /\ [][Merges => Both]_vars

C15_Witness ==
    /\ version >= 4
    /\ pc = "done"
    /\ displayed # <<>>
    /\ \A e \in {"token", "sessions", "plays", "balls"} :
          \E q \in issued : q.endpoint = e /\ q.status = OK

(***************************************************************************)
(* The kind of filter a column gets.                                       *)
(***************************************************************************)
\* the columns whose values are timestamps
TimestampCols == {"utcDateTime"}

\* the user chose a column of the column filter
ColumnChosen ==
    /\ version <= 5
    /\ pc = "done"
    /\ selection.kind \in {"numeric", "date", "discrete"}

KindByValues(col) ==
    CASE col \in NumericCols -> "numeric"
      [] col \in TimestampCols -> "date"
      [] OTHER -> "discrete"

\* C17: the filter of a chosen column that has values follows these values:
\* range for numbers, date range for timestamps, multiselect otherwise.
C17_FilterFollowsValues ==
    (ColumnChosen /\ UniqueValues(FilterInput, selection.col) # {}) =>
        selection.kind = KindByValues(selection.col)

(***************************************************************************)
(* The tables handed out by the fetchers at the end of the run.            *)
(***************************************************************************)
\* versions 6 and 7 never rebind sessions_df: at the end of the run the name
\* still denotes the table fetch_sessions returned
SessionsNeverRebound ==
    /\ version \in {6, 7}
    /\ pc = "done"
    /\ SessionsKey \in DOMAIN cache["sessions"]

\* C18: at the end of the run the sessions table has the columns and rows
\* fetch_sessions returned.
C18_FetchedTablesUntouched ==
    SessionsNeverRebound => sessions_df = cache["sessions"][SessionsKey].value

(***************************************************************************)
(* app.py: the viewer of the exported CSV.  The script requests the CSV,   *)
(* shows the status, the content type and the start of the body, sets the  *)
(* page up and reads the filters.  The name df is bound nowhere in the     *)
(* script, so the statement that builds the pitch type options raises.     *)
(***************************************************************************)
\* the value of version that stands for app.py
App == 0

ContentTypes == {"text/csv", "application/octet-stream"}

NameChars == {"a", "A", "b"}

Lower(c) == IF c = "A" THEN "a" ELSE c

LowerText(s) == [i \in DOMAIN s |-> Lower(s[i])]

IsInfix(t, s) == \E i \in 0..(Len(s) - Len(t)) : SubSeq(s, i + 1, i + Len(t)) = t

\* Series.str.contains(text, case=False, na=False) on one cell
NameContains(name, text) ==
    IF IsNa(name) THEN FALSE ELSE IsInfix(LowerText(text), LowerText(name))

InitApp ==
    /\ version = App
    /\ ids_numeric = FALSE
    /\ runs = 0
    /\ healthy = TRUE
    /\ cache = EmptyCache
    /\ pc = "request"
    /\ exc = "none"
    /\ date_range = <<"2025-01-03">>
    /\ InitLocals

\* response = requests.get(url) and the three st.text lines; a response
\* without the Content-Type header raises KeyError
AppRequest ==
    /\ pc = "request"
    /\ \E status \in Statuses, ctype \in ContentTypes \cup {None} :
        /\ issued' = {[endpoint |-> "csv", key |-> <<>>, status |-> status]}
        /\ IF ctype = None
           THEN /\ shown' = {Msg("text", "status", status)}
                /\ Raise("KeyError")
           ELSE /\ shown' = {Msg("text", "status", status), Msg("text", ctype, status),
                             Msg("text", "body", status)}
                /\ Goto("page")
    /\ UNCHANGED <<env, cache, access_token, sessions_df, session_id, todo, play_df,
                   ball_df, merged_df, all_merged_dfs, selection, displayed>>

\* st.set_page_config after st.text: the Streamlit releases that want it as
\* the first command raise, the others go on to st.title
AppPage ==
    /\ pc = "page"
    /\ \/ Raise("StreamlitAPIException")
       \/ Goto("name")
    /\ UNCHANGED <<env, cache, access_token, sessions_df, session_id, todo, play_df,
                   ball_df, merged_df, all_merged_dfs, selection, displayed, shown,
                   issued>>

\* name_filter = st.text_input("Filter by Pitcher Name")
AppNameInput ==
    /\ pc = "name"
    /\ \E text \in SeqsUpTo(NameChars, MaxName) :
        selection' = [kind |-> "name", text |-> text]
    /\ Goto("options")
    /\ UNCHANGED <<env, cache, access_token, sessions_df, session_id, todo, play_df,
                   ball_df, merged_df, all_merged_dfs, displayed, shown, issued>>

\* options=df['pitchTag_taggedPitchType'].dropna().unique(): df is not defined
AppOptions ==
    /\ pc = "options"
    /\ Raise("NameError")
    /\ UNCHANGED <<env, cache, access_token, sessions_df, session_id, todo, play_df,
                   ball_df, merged_df, all_merged_dfs, selection, displayed, shown,
                   issued>>

AppRerun ==
    /\ pc = "crashed"
    /\ runs < MaxRuns
    /\ runs' = runs + 1
    /\ selection' = NoSelection
    /\ shown' = {}
    /\ issued' = {}
    /\ pc' = "request"
    /\ exc' = "none"
    /\ UNCHANGED <<version, ids_numeric, healthy, date_range, cache, access_token,
                   sessions_df, session_id, todo, play_df, ball_df, merged_df,
                   all_merged_dfs, displayed>>

NextApp == AppRequest \/ AppPage \/ AppNameInput \/ AppOptions \/ AppRerun

SpecApp == InitApp /\ [][NextApp]_vars

\* the script of app.py came to its end with a text in the name filter
NameFilterTyped ==
    /\ version = App
    /\ pc \in {"done", "crashed"}
    /\ selection.kind = "name"
    /\ selection.text # <<>>

\* C19: with a text in the name filter the table shown has only rows whose
\* pitcher name contains the text, whatever the case; rows without a name
\* are not shown.
C19_NameFilterApplied ==
    NameFilterTyped =>
        /\ exc = "none"
        /\ Len(displayed) = 1
        /\ \A n \in DOMAIN displayed[1].rows :
               NameContains(displayed[1].rows[n]["pitcher_name"], selection.text)

(***************************************************************************)
(* The requests of a fetch.                                                *)
(***************************************************************************)
\* the script is at a call of a fetch function
FetchStep == pc \in {"auth", "sessions", "metadata", "plays", "balls"}

\* C20 as stated: each call of a fetch function issues exactly one request.
C20_OneRequestPerFetch ==
    [][FetchStep => Cardinality(issued' \ issued) = 1]_vars

\* no endpoint is asked twice for the same arguments within a run
NoSecondRequest ==
    \A p, q \in issued : (p.endpoint = q.endpoint /\ p.key = q.key) => p = q

\* C20: a call of a fetch function issues one request when its arguments are
\* not stored and none when they are; within a run no endpoint is asked a
\* second time for the same arguments, whatever the status of the answer.
C20_OneRequestUnlessStored ==
    /\ []NoSecondRequest
    /\ [][FetchStep => Cardinality(issued' \ issued) = (IF cache' = cache THEN 0 ELSE 1)]_vars

\* a run that ended with a failed balls request and no other balls request
C20_Witness ==
    /\ pc = "done"
    /\ \E q \in issued :
        /\ q.endpoint = "balls"
        /\ q.status # OK
        /\ Cardinality({p \in issued : p.endpoint = "balls"}) = 1

(***************************************************************************)
(* Memoization across the runs of one process.                             *)
(***************************************************************************)
\* the requests this step issued
NewRequests == IF issued' = {} THEN {} ELSE issued' \ issued

\* C21: over all runs of the process a memoized fetch function asks the
\* remote side only for arguments it has no result for, stores the result,
\* and from then on answers these arguments from the store without a request;
\* the token exchange, which has no arguments, is asked once and its result
\* is what every later run gets.
C21_OneRequestPerArguments ==
    [][/\ \A q \in NewRequests :
            /\ q.key \notin DOMAIN cache[q.endpoint]
            /\ q.key \in DOMAIN cache'[q.endpoint]
       /\ (pc = "auth" /\ <<>> \in DOMAIN cache["token"]) =>
            /\ issued' = issued
            /\ access_token' = cache["token"][<<>>].value
            /\ cache' = cache]_vars

\* a second run that got its token, sessions, plays and balls without a request
C21_Witness ==
    /\ version >= 4
    /\ runs = 2
    /\ pc = "done"
    /\ issued = {}
    /\ access_token = Tok
    /\ ~IsEmpty(merged_df)

(***************************************************************************)
(* The session id sent to the plays and balls endpoints.                   *)
(***************************************************************************)
\* the script chose a session by its label and is about to fetch its plays
LabelChosen ==
    /\ version \in {7, 8, 9}
    /\ pc = "plays"

\* C22: the session id the plays and balls are fetched for is the complete
\* sessionId of a session of the table the user chose from.
C22_FullSessionIdSent ==
    LabelChosen =>
        \E n \in DOMAIN sessions_df.rows : sessions_df.rows[n]["sessionId"] = session_id

(***************************************************************************)
(* The pitcher dropdown of versions 8 and 9.                               *)
(***************************************************************************)
\* the user chose a pitcher in the dropdown and the table was filtered
PitcherChosen ==
    /\ version \in {8, 9}
    /\ pc = "done"
    /\ selection.kind = "pitcher"

\* C23: the table filtered by a pitcher of the dropdown holds exactly the
\* merged rows that carry the label of this pitcher, and so is not empty.
C23_PitcherRowsShown ==
    PitcherChosen =>
        /\ Len(displayed) = 1
        /\ displayed[1].rows # <<>>
        /\ displayed[1] = FilterRows(merged_df,
                              LAMBDA r : r["pitcher_display"] \in selection.options)

(***************************************************************************)
(* The order of the merged table.                                          *)
(***************************************************************************)
\* non-empty plays and balls, one of them at least with the utcDateTime
\* column, went through the merge stage of a version that sorts
TimedTablesMerged ==
    /\ version \in 6..9
    /\ pc \in {"done", "crashed"}
    /\ ~IsEmpty(play_df)
    /\ ~IsEmpty(ball_df)
    /\ "utcDateTime" \in play_df.cols \cup ball_df.cols

InTimeOrder(df) ==
    \A i, j \in DOMAIN df.rows :
        i < j => ~Before(df.rows[j]["utcDateTime"], df.rows[i]["utcDateTime"])

\* C24: the merge and the sort of such tables do not raise, and the table
\* shown is in non-decreasing utcDateTime order.
C24_SortedWithoutRaising ==
    TimedTablesMerged =>
        /\ exc = "none"
        /\ Len(displayed) = 1 => InTimeOrder(displayed[1])

(***************************************************************************)
(* The options of the session selectbox.                                   *)
(***************************************************************************)
\* the sessions the selectbox is built from
Offered == IF version = 3 THEN FilterRows(sessions_df, IsAdhoc) ELSE sessions_df

\* the label of a session in the selectbox
OptionOf(r) ==
    IF version \in {6, 7} THEN SessionDisplay(r) ELSE r[DisplayCol(Offered)]

\* the script is about to offer sessions that all have an id
SessionsOffered ==
    /\ version \in 3..7
    /\ pc = "select"
    /\ "sessionId" \in sessions_df.cols
    /\ "sessionType" \in sessions_df.cols
    /\ ~IsEmpty(Offered)

\* C25: sessions with different ids get different options in the selectbox.
C25_DistinctOptions ==
    SessionsOffered =>
        \A i, j \in DOMAIN Offered.rows :
            Offered.rows[i]["sessionId"] # Offered.rows[j]["sessionId"]
                => OptionOf(Offered.rows[i]) # OptionOf(Offered.rows[j])

(***************************************************************************)
(* relativeTime of the multi-session script.                               *)
(***************************************************************************)
\* the combined table of version 9 has its relativeTime column
Combined ==
    /\ version = 9
    /\ pc \in {"filter", "done"}
    /\ "relativeTime" \in merged_df.cols

\* relativeTime is the time passed since the earliest row of df, and the rows
\* of df are in the order of their relativeTime
SinceEarliest(df) ==
    /\ \A i \in DOMAIN df.rows : df.rows[i]["relativeTime"] >= 0
    /\ \A i, j \in DOMAIN df.rows :
        /\ df.rows[i]["relativeTime"] - df.rows[j]["relativeTime"]
              = df.rows[i]["utcDateTime"] - df.rows[j]["utcDateTime"]
        /\ i < j => df.rows[i]["relativeTime"] <= df.rows[j]["relativeTime"]

StartsAtZero(df) == df.rows # <<>> => df.rows[1]["relativeTime"] = 0

\* C26 as stated: before and after the pitcher filter relativeTime is the time
\* since the earliest row, not negative, in displayed order, and 0 in the
\* first row.
C26_RelativeTime ==
    Combined =>
        /\ SinceEarliest(merged_df) /\ StartsAtZero(merged_df)
        /\ Len(displayed) = 1 => SinceEarliest(displayed[1]) /\ StartsAtZero(displayed[1])

\* C26: relativeTime is the time since the earliest row of the combined table
\* of all selected sessions: not negative, 0 in the first row of the combined
\* table and non-decreasing in displayed order before and after the pitcher
\* filter; the filtered table keeps the values of the combined table.
C26_RelativeTimeOfCombined ==
    Combined =>
        /\ SinceEarliest(merged_df) /\ StartsAtZero(merged_df)
        /\ Len(displayed) = 1 =>
             /\ SinceEarliest(displayed[1])
             /\ \A n \in DOMAIN displayed[1].rows :
                  \E k \in DOMAIN merged_df.rows : displayed[1].rows[n] = merged_df.rows[k]

\* the pitcher of the later session is chosen: the table shown starts after
\* the pitch of the earlier session
C26_Witness ==
    /\ Combined
    /\ pc = "done"
    /\ Len(merged_df.rows) >= 2
    /\ Len(displayed) = 1
    /\ displayed[1].rows # <<>>
    /\ displayed[1].rows[1]["relativeTime"] > 0

(***************************************************************************)
(* The combined table of the multi-session script.                         *)
(***************************************************************************)
\* the pairs of a Pitch ball and the play with its key and a pitcher id
PitchPairs ==
    {<<i, j>> \in (DOMAIN ball_df.rows) \X (DOMAIN play_df.rows) :
        /\ IsPitch(ball_df.rows[i])
        /\ ball_df.rows[i]["playId"] = play_df.rows[j]["playID"]
        /\ ~IsNa(play_df.rows[j]["pitcher_id"])}

\* r is the row of this ball and this play, tagged with this session
RowOfPair(r, i, j, sid) ==
    /\ r["sessionId"] = sid
    /\ \A c \in ball_df.cols : r[c] = ball_df.rows[i][c]
    /\ \A c \in play_df.cols : r[c] = play_df.rows[j][c]

\* the step of the loop for one selected session: nothing is appended when
\* its plays or balls are empty, else the table of its pairs, tagged with it
SessionAppended ==
    (version = 9 /\ pc = "merge" /\ pc' # "crashed") =>
        IF IsEmpty(play_df) \/ IsEmpty(ball_df)
        THEN all_merged_dfs' = all_merged_dfs
        ELSE /\ Len(all_merged_dfs') = Len(all_merged_dfs) + 1
             /\ \A n \in DOMAIN all_merged_dfs : all_merged_dfs'[n] = all_merged_dfs[n]
             /\ LET new == all_merged_dfs'[Len(all_merged_dfs')]
                IN  /\ Len(new.rows) = Cardinality(PitchPairs)
                    /\ \A n \in DOMAIN new.rows : \E q \in PitchPairs :
                          RowOfPair(new.rows[n], q[1], q[2], session_id)
                    /\ \A q \in PitchPairs : \E n \in DOMAIN new.rows :
                          RowOfPair(new.rows[n], q[1], q[2], session_id)

RECURSIVE TotalRows(_)
TotalRows(dfs) == IF dfs = <<>> THEN 0 ELSE Len(dfs[1].rows) + TotalRows(Tail(dfs))

\* the combined table has the rows of the tables of the sessions, no others
UnionOfSessions ==
    (version = 9 /\ pc \in {"filter", "done"} /\ all_merged_dfs # <<>>) =>
        /\ Len(merged_df.rows) = TotalRows(all_merged_dfs)
        /\ \A n \in DOMAIN all_merged_dfs : \A i \in DOMAIN all_merged_dfs[n].rows :
              \E k \in DOMAIN merged_df.rows : \A c \in all_merged_dfs[n].cols :
                  merged_df.rows[k][c] = all_merged_dfs[n].rows[i][c]

\* C27: the combined table of version 9 holds exactly the merged rows of the
\* selected sessions, each tagged with the id of its session; a session whose
\* plays or balls are empty adds no rows and leaves the rows of the others.
C27_UnionOfSessions ==
    /\ []UnionOfSessions
    /\ [][SessionAppended]_vars

\* the session handled first gave a row, this session has no balls, and the
\* combined table has the row of the first
C27_Witness ==
    /\ version = 9
    /\ pc = "done"
    /\ ~IsEmpty(play_df)
    /\ IsEmpty(ball_df)
    /\ Len(merged_df.rows) = 1
    /\ merged_df.rows[1]["sessionId"] = SidB

====
